---- MODULE Spec2Model ----
(***************************************************************************)
(* State-machine model of the USB DFU device class core (dfu_core.c) of    *)
(* the GD32F10x usbd library: the DFU context (usbd_dfu_handler), the      *)
(* seven class-request handlers, the dispatcher, the control-IN            *)
(* data-stage-complete handler, mode leave, and interface init/deinit.     *)
(* The memory adapter (dfu_mem), the platform reset and the USB            *)
(* connect/disconnect primitives are external: the model records every     *)
(* call a handler makes to them, with its arguments, in `calls`.           *)
(***************************************************************************)
EXTENDS Integers, Sequences, FiniteSets, TLC

(***************************************************************************)
(* Values of dfu_core.h / usbd_conf.h (header files of the repository that *)
(* define the enums and macros dfu_core.c uses).                           *)
(***************************************************************************)
\* dfu_state enum
STATE_DFU_IDLE == 2
STATE_DFU_DNLOAD_SYNC == 3
STATE_DFU_DNBUSY == 4
STATE_DFU_DNLOAD_IDLE == 5
STATE_DFU_MANIFEST_SYNC == 6
STATE_DFU_MANIFEST == 7
STATE_DFU_MANIFEST_WAIT_RESET == 8
STATE_DFU_UPLOAD_IDLE == 9
STATE_DFU_ERROR == 10
\* dfu_status enum
STATUS_OK == 0
STATUS_ERR_UNKNOWN == 14
STATUS_ERR_STALLEDPKT == 15
\* manifestation state
MANIFEST_COMPLETE == 0
MANIFEST_IN_PROGRESS == 1
\* special commands carried by a block-0 download
GET_COMMANDS == 0
SET_ADDRESS_POINTER == 33
ERASE == 65
\* dfu_requests enum
DFU_DETACH == 0
DFU_DNLOAD == 1
DFU_UPLOAD == 2
DFU_GETSTATUS == 3
DFU_CLRSTATUS == 4
DFU_GETSTATE == 5
DFU_ABORT == 6
DFU_REQ_MAX == 7
\* configuration
TRANSFER_SIZE == 2048
APP_LOADED_ADDR == 134234112
FLASH_ERASE_TIMEOUT == 60
FLASH_WRITE_TIMEOUT == 80
DFU_DETACH_MASK == 16
\* usbd status codes returned by the class callbacks
USBD_OK == 0
USBD_FAIL == 2
\* dfu_config_desc.dfu_func.wDetachTimeOut
wDetachTimeOut == 255
\* bmAttributes bit tested for manifestation tolerance
MANIFEST_TOLERANT_BIT == 4
\* dfu_config_desc.dfu_func.bmAttributes as initialised:
\* USB_DFU_CAN_DOWNLOAD | USB_DFU_CAN_UPLOAD | USB_DFU_WILL_DETACH
BM_ATTRIBUTES_BUILD == 11

(***************************************************************************)
(* Bounds of the model.                                                    *)
(***************************************************************************)
\* block numbers 0..MaxBlock are requested
MaxBlock == 2
\* data blocks 2..2+MaxDataBlock, and the largest 16-bit block number, are
\* requested where the address arithmetic is checked
MaxDataBlock == 1
\* dfu_mem_erase / dfu_mem_write calls are counted up to MaxMediaOps
MaxMediaOps == 2

\* the leading bytes of the staging buffer the handlers inspect: buf[0..4]
BufTracked == 5

U8 == 256
U16 == 65536

(***************************************************************************)
(* uint32_t values are pairs << high half, low half >> of 16-bit halves,   *)
(* with the arithmetic of C on them (modulo 2^32).                         *)
(***************************************************************************)
\* a natural below 2^31 as a uint32_t
U32(n) == << n \div U16, n % U16 >>

Add32(a, b) ==
    LET lo == a[2] + b[2]
    IN  << (a[1] + b[1] + (lo \div U16)) % U16, lo % U16 >>

Sub32(a, b) ==
    LET lo == a[2] - b[2]
        borrow == IF lo < 0 THEN 1 ELSE 0
    IN  << (a[1] - b[1] - borrow + 2 * U16) % U16, (lo + U16) % U16 >>

\* a uint32_t times a constant below 2^15
Mul32(a, k) ==
    LET lo == a[2] * k
    IN  << (a[1] * k + (lo \div U16)) % U16, lo % U16 >>

DeclaredStates ==
    { STATE_DFU_IDLE, STATE_DFU_DNLOAD_SYNC, STATE_DFU_DNBUSY,
      STATE_DFU_DNLOAD_IDLE, STATE_DFU_MANIFEST_SYNC, STATE_DFU_MANIFEST,
      STATE_DFU_MANIFEST_WAIT_RESET, STATE_DFU_UPLOAD_IDLE, STATE_DFU_ERROR }

RECURSIVE BitAnd(_, _)
\* the C operator & on naturals
BitAnd(a, b) ==
    IF a = 0 \/ b = 0 THEN 0
    ELSE ((a % 2) * (b % 2)) + 2 * BitAnd(a \div 2, b \div 2)

\* little-endian bytes of a 32-bit word, as the host puts an address on the wire
LE32Bytes(a) ==
    << a[2] % U8, a[2] \div U8, a[1] % U8, a[1] \div U8 >>

\* the leading bytes of a block-0 command payload: command byte, address
Cmd(c, a) == << c >> \o LE32Bytes(a)

\* the leading bytes of a firmware data block
DataPayload == << ERASE, 255, 255, 255, 255 >>

NoPayload == << 0, 0, 0, 0, 0 >>

NoReqArgs == [ wValue |-> 0, wLength |-> 0, payload |-> NoPayload ]

Req(r, v, l, p) == [ bRequest |-> r, wValue |-> v, wLength |-> l, payload |-> p ]

\* the requests that carry no data: the five plain opcodes and two opcodes
\* outside the table
PlainRequests ==
    { Req(r, 0, 0, NoPayload) :
          r \in { DFU_DETACH, DFU_GETSTATUS, DFU_CLRSTATUS, DFU_GETSTATE, DFU_ABORT,
                  DFU_REQ_MAX, U8 - 1 } }

\* two addresses a host sets: inside the flash, and one block below 2^32
AddrA == U32(APP_LOADED_ADDR + 2 * TRANSFER_SIZE)
AddrB == Sub32(U32(0), U32(TRANSFER_SIZE))

(***************************************************************************)
(* Requests of the state-machine specification Spec: every opcode, block   *)
(* numbers 0..MaxBlock, downloads of no data, of a 1-byte and of a 5-byte  *)
(* command or block and of one byte more than the staging buffer holds,    *)
(* uploads of no data, of 3 and of 4 bytes.                                *)
(***************************************************************************)
BlockNums == 0 .. MaxBlock
DnloadLengths == { 0, 5, TRANSFER_SIZE + 1 }
UploadLengths == { 0, 3, 4 }

Requests ==
    { Req(DFU_DNLOAD, 0, l, Cmd(c, AddrA)) :
          l \in DnloadLengths \ { 0 }, c \in { SET_ADDRESS_POINTER, ERASE } }
    \cup
    { Req(DFU_DNLOAD, 0, 1, << GET_COMMANDS, 0, 0, 0, 0 >>) }
    \cup
    { Req(DFU_DNLOAD, v, l, DataPayload) :
          v \in BlockNums \ { 0 }, l \in DnloadLengths \ { 0 } }
    \cup
    { Req(DFU_DNLOAD, v, 0, NoPayload) : v \in BlockNums }
    \cup
    { Req(DFU_UPLOAD, v, l, NoPayload) : v \in BlockNums, l \in UploadLengths }
    \cup
    PlainRequests

(***************************************************************************)
(* Requests of the address specification SpecAddr: SET_ADDRESS_POINTER and *)
(* ERASE commands for two addresses, and downloads and uploads of a full   *)
(* data block.                                                             *)
(***************************************************************************)
DataBlocks == (2 .. 2 + MaxDataBlock) \cup { U16 - 1 }

AddrRequests ==
    { Req(DFU_DNLOAD, 0, 5, Cmd(c, a)) :
          c \in { SET_ADDRESS_POINTER, ERASE }, a \in { AddrA, AddrB } }
    \cup
    { Req(DFU_DNLOAD, v, TRANSFER_SIZE, DataPayload) : v \in DataBlocks }
    \cup
    { Req(DFU_UPLOAD, v, TRANSFER_SIZE, NoPayload) : v \in DataBlocks }
    \cup
    PlainRequests

VARIABLES
    dfu,          \* the usbd_dfu_handler context
    transc_in,    \* udev->transc_in[0]: the IN transfer the last entry point armed
    transc_out,   \* udev->transc_out[0]: the OUT transfer the last entry point armed
    bmAttributes, \* dfu_config_desc.dfu_func.bmAttributes
    calls,        \* calls to external collaborators made by the last entry point
    ret,          \* return value of the last class callback
    halted,       \* NVIC_SystemReset was called and the core has not restarted
    configured,   \* the DFU interface is active: dfu_init ran, dfu_deinit did not
    last,         \* the last entry point run: its name, the state it found, and
                  \* whether its request had wLength = 0
    setAddr,      \* {address of the last decoded SET_ADDRESS_POINTER}, or {}
    eraseSince,   \* an ERASE command was decoded after that SET_ADDRESS_POINTER
    mediaOps      \* dfu_mem_erase / dfu_mem_write calls made since the last DNLOAD
                  \* with wLength > 0 was accepted

vars == << dfu, transc_in, transc_out, bmAttributes, calls, ret, halted,
           configured, last, setAddr, eraseSince, mediaOps >>

\* a call to an external collaborator, with the arguments it is given
Call(op, addr, len) == [ op |-> op, addr |-> addr, len |-> len ]

\* a call that takes no address
Call0(op, len) == Call(op, U32(0), len)

ZeroBuf == [ i \in 1 .. BufTracked |-> 0 ]

\* memset(&dfu_handler, 0, sizeof(usbd_dfu_handler))
ZeroHandler ==
    [ bStatus |-> 0, bwPollTimeout0 |-> 0, bwPollTimeout1 |-> 0, bwPollTimeout2 |-> 0,
      bState |-> 0, iString |-> 0, manifest_state |-> 0, data_len |-> 0,
      block_num |-> 0, base_addr |-> U32(0), buf |-> ZeroBuf ]

NoTransc == [ xfer_buf |-> "none", xfer_len |-> 0 ]

(***************************************************************************)
(* Helpers translated from expressions of the handlers.                    *)
(***************************************************************************)
\* dfu_config_desc.dfu_func.bmAttributes & 0x04U
ManifestTolerant(bm) == BitAnd(bm, MANIFEST_TOLERANT_BIT) # 0

\* mutant: the address bytes of a command are read most significant first
buf_addr_big_endian(buf) ==
    << buf[3] + U8 * buf[2], buf[5] + U8 * buf[4] >>

\* *(uint32_t *)(dfu->buf + 1U) on the little-endian core: buf[1..4] of the C
\* array are elements 2..5 here
buf_addr(buf) ==
    << buf[4] + U8 * buf[5], buf[2] + U8 * buf[3] >>

\* the control-OUT data stage stores the first len payload bytes in dfu->buf
Fill(buf, bytes, len) ==
    [ i \in 1 .. BufTracked |-> IF i <= len THEN bytes[i] ELSE buf[i] ]

\* addr = (dfu->block_num - 2U) * TRANSFER_SIZE + dfu->base_addr, in uint32_t,
\* in dfu_getstatus_complete
dnload_addr(block_num, base_addr) ==
    Add32(Mul32(Sub32(U32(block_num), U32(2)), TRANSFER_SIZE), base_addr)

\* mutant: the upload path numbers the data blocks from 0, not from 2
upload_addr_from_zero(block_num, base_addr) ==
    Add32(Mul32(U32(block_num), TRANSFER_SIZE), base_addr)

\* addr = (dfu->block_num - 2U) * TRANSFER_SIZE + dfu->base_addr, in uint32_t,
\* in dfu_upload
upload_addr(block_num, base_addr) ==
    Add32(Mul32(Sub32(U32(block_num), U32(2)), TRANSFER_SIZE), base_addr)

\* SET_POLLING_TIMEOUT(x): the three bytes of the 24-bit poll timeout
SET_POLLING_TIMEOUT(d, x) ==
    [ d EXCEPT !.bwPollTimeout0 = x % U8,
               !.bwPollTimeout1 = (x \div U8) % U8,
               !.bwPollTimeout2 = (x \div (U8 * U8)) % U8 ]

\* states in which DETACH and ABORT reset the context
ResetStates ==
    { STATE_DFU_IDLE, STATE_DFU_DNLOAD_SYNC, STATE_DFU_DNLOAD_IDLE,
      STATE_DFU_MANIFEST_SYNC, STATE_DFU_UPLOAD_IDLE }

(***************************************************************************)
(* The handlers' effect on the context.                                    *)
(***************************************************************************)
\* mutant: DETACH leaves the staged length in place
dfu_detach_keeps_len(d) ==
    IF d.bState \in ResetStates
    THEN [ d EXCEPT !.bStatus = STATUS_OK, !.bState = STATE_DFU_IDLE, !.iString = 0,
                    !.block_num = 0 ]
    ELSE d

dfu_detach_ctx(d) ==
    IF d.bState \in ResetStates
    THEN [ d EXCEPT !.bStatus = STATUS_OK, !.bState = STATE_DFU_IDLE, !.iString = 0,
                    !.block_num = 0, !.data_len = 0 ]
    ELSE d

dfu_detach_calls ==
    IF BitAnd(wDetachTimeOut, DFU_DETACH_MASK) # 0
    THEN << Call0("usbd_disconnect", 0), Call0("usbd_connect", 0) >>
    ELSE << Call0("delay_1ms", 4) >>

\* mutant: a zero-length download does not mark manifestation in progress
dfu_dnload_no_manifest(d, req) ==
    IF d.bState \in { STATE_DFU_IDLE, STATE_DFU_DNLOAD_IDLE }
    THEN IF req.wLength > 0
         THEN [ d EXCEPT !.block_num = req.wValue,
                         !.data_len = req.wLength,
                         !.bState = STATE_DFU_DNLOAD_SYNC,
                         !.buf = Fill(d.buf, req.payload, req.wLength) ]
         ELSE [ d EXCEPT !.bState = STATE_DFU_MANIFEST_SYNC ]
    ELSE d

dfu_dnload_ctx(d, req) ==
    IF d.bState \in { STATE_DFU_IDLE, STATE_DFU_DNLOAD_IDLE }
    THEN IF req.wLength > 0
         THEN [ d EXCEPT !.block_num = req.wValue,
                         !.data_len = req.wLength,
                         !.bState = STATE_DFU_DNLOAD_SYNC,
                         !.buf = Fill(d.buf, req.payload, req.wLength) ]
         ELSE [ d EXCEPT !.manifest_state = MANIFEST_IN_PROGRESS,
                         !.bState = STATE_DFU_MANIFEST_SYNC ]
    ELSE d

dfu_dnload_transc(d, req) ==
    IF d.bState \in { STATE_DFU_IDLE, STATE_DFU_DNLOAD_IDLE } /\ req.wLength > 0
    THEN [ xfer_buf |-> "dfu_buf", xfer_len |-> req.wLength ]
    ELSE NoTransc

\* the supported-command list stored in buf[0..2]
CommandList(buf) ==
    [ i \in 1 .. BufTracked |->
        CASE i = 1 -> GET_COMMANDS
          [] i = 2 -> SET_ADDRESS_POINTER
          [] i = 3 -> ERASE
          [] OTHER -> buf[i] ]

\* mutant: a zero-length upload also drops the staged block
dfu_upload_zero_clears(d, req) ==
    IF req.wLength <= 0
    THEN [ d EXCEPT !.bState = STATE_DFU_IDLE, !.data_len = 0, !.block_num = 0 ]
    ELSE IF d.bState \in { STATE_DFU_IDLE, STATE_DFU_UPLOAD_IDLE }
         THEN IF req.wValue = 0
              THEN [ d EXCEPT !.block_num = req.wValue,
                              !.data_len = req.wLength,
                              !.bState = IF req.wLength > 3 THEN STATE_DFU_IDLE
                                         ELSE STATE_DFU_UPLOAD_IDLE,
                              !.buf = CommandList(d.buf) ]
              ELSE IF req.wValue > 1
                   THEN [ d EXCEPT !.block_num = req.wValue,
                                   !.data_len = req.wLength,
                                   !.bState = STATE_DFU_UPLOAD_IDLE ]
                   ELSE [ d EXCEPT !.block_num = req.wValue,
                                   !.data_len = req.wLength,
                                   !.bState = STATUS_ERR_STALLEDPKT ]
         ELSE [ d EXCEPT !.data_len = 0, !.block_num = 0 ]

\* mutant: the command-list upload compares the requested length with >= 3
dfu_upload_ge3(d, req) ==
    IF req.wLength <= 0
    THEN [ d EXCEPT !.bState = STATE_DFU_IDLE ]
    ELSE IF d.bState \in { STATE_DFU_IDLE, STATE_DFU_UPLOAD_IDLE }
         THEN IF req.wValue = 0
              THEN [ d EXCEPT !.block_num = req.wValue,
                              !.data_len = req.wLength,
                              !.bState = IF req.wLength >= 3 THEN STATE_DFU_IDLE
                                         ELSE STATE_DFU_UPLOAD_IDLE,
                              !.buf = CommandList(d.buf) ]
              ELSE IF req.wValue > 1
                   THEN [ d EXCEPT !.block_num = req.wValue,
                                   !.data_len = req.wLength,
                                   !.bState = STATE_DFU_UPLOAD_IDLE ]
                   ELSE [ d EXCEPT !.block_num = req.wValue,
                                   !.data_len = req.wLength,
                                   !.bState = STATUS_ERR_STALLEDPKT ]
         ELSE [ d EXCEPT !.data_len = 0, !.block_num = 0 ]

\* dfu_mem_read returns the readable region (phy_addr); it is given dfu->buf as
\* scratch, which the handler does not read afterwards
dfu_upload_ctx(d, req) ==
    IF req.wLength <= 0
    THEN [ d EXCEPT !.bState = STATE_DFU_IDLE ]
    ELSE IF d.bState \in { STATE_DFU_IDLE, STATE_DFU_UPLOAD_IDLE }
         THEN IF req.wValue = 0
              THEN [ d EXCEPT !.block_num = req.wValue,
                              !.data_len = req.wLength,
                              !.bState = IF req.wLength > 3 THEN STATE_DFU_IDLE
                                         ELSE STATE_DFU_UPLOAD_IDLE,
                              !.buf = CommandList(d.buf) ]
              ELSE IF req.wValue > 1
                   THEN [ d EXCEPT !.block_num = req.wValue,
                                   !.data_len = req.wLength,
                                   !.bState = STATE_DFU_UPLOAD_IDLE ]
                   ELSE [ d EXCEPT !.block_num = req.wValue,
                                   !.data_len = req.wLength,
                                   !.bState = STATUS_ERR_STALLEDPKT ]
         ELSE [ d EXCEPT !.data_len = 0, !.block_num = 0 ]

dfu_upload_transc(d, req) ==
    IF req.wLength > 0 /\ d.bState \in { STATE_DFU_IDLE, STATE_DFU_UPLOAD_IDLE }
    THEN IF req.wValue = 0
         THEN [ xfer_buf |-> "dfu_buf", xfer_len |-> 3 ]
         ELSE IF req.wValue > 1
              THEN [ xfer_buf |-> "phy_addr", xfer_len |-> req.wLength ]
              ELSE NoTransc
    ELSE NoTransc

dfu_upload_calls(d, req) ==
    IF req.wLength > 0 /\ d.bState \in { STATE_DFU_IDLE, STATE_DFU_UPLOAD_IDLE }
       /\ req.wValue > 1
    THEN << Call("dfu_mem_read", upload_addr(req.wValue, d.base_addr), req.wLength) >>
    ELSE << >>

\* mutant: GETSTATUS never leaves MANIFEST_SYNC once manifestation is complete
dfu_getstatus_no_idle(d, bm) ==
    IF d.bState = STATE_DFU_DNLOAD_SYNC
    THEN IF d.data_len # 0
         THEN LET b == [ d EXCEPT !.bState = STATE_DFU_DNBUSY ]
              IN  IF d.block_num = 0
                  THEN IF d.buf[1] = ERASE
                       THEN SET_POLLING_TIMEOUT(b, FLASH_ERASE_TIMEOUT)
                       ELSE SET_POLLING_TIMEOUT(b, FLASH_WRITE_TIMEOUT)
                  ELSE b
         ELSE [ d EXCEPT !.bState = STATE_DFU_DNLOAD_IDLE ]
    ELSE IF d.bState = STATE_DFU_MANIFEST_SYNC /\ d.manifest_state = MANIFEST_IN_PROGRESS
         THEN [ d EXCEPT !.bState = STATE_DFU_MANIFEST, !.bwPollTimeout0 = 1 ]
         ELSE d

dfu_getstatus_ctx(d, bm) ==
    IF d.bState = STATE_DFU_DNLOAD_SYNC
    THEN IF d.data_len # 0
         THEN LET b == [ d EXCEPT !.bState = STATE_DFU_DNBUSY ]
              IN  IF d.block_num = 0
                  THEN IF d.buf[1] = ERASE
                       THEN SET_POLLING_TIMEOUT(b, FLASH_ERASE_TIMEOUT)
                       ELSE SET_POLLING_TIMEOUT(b, FLASH_WRITE_TIMEOUT)
                  ELSE b
         ELSE [ d EXCEPT !.bState = STATE_DFU_DNLOAD_IDLE ]
    ELSE IF d.bState = STATE_DFU_MANIFEST_SYNC
         THEN IF d.manifest_state = MANIFEST_IN_PROGRESS
              THEN [ d EXCEPT !.bState = STATE_DFU_MANIFEST, !.bwPollTimeout0 = 1 ]
              ELSE IF d.manifest_state = MANIFEST_COMPLETE /\ ManifestTolerant(bm)
                   THEN [ d EXCEPT !.bState = STATE_DFU_IDLE, !.bwPollTimeout0 = 0 ]
                   ELSE d
         ELSE d

\* mutant: CLRSTATUS enters ERROR from every state and never leaves it
dfu_clrstatus_sticky_error(d) ==
    [ d EXCEPT !.bStatus = STATUS_ERR_UNKNOWN, !.bState = STATE_DFU_ERROR,
               !.iString = 0 ]

\* mutant: CLRSTATUS from ERROR returns to IDLE but leaves the status code
dfu_clrstatus_keeps_status(d) ==
    IF d.bState = STATE_DFU_ERROR
    THEN [ d EXCEPT !.bState = STATE_DFU_IDLE, !.iString = 0 ]
    ELSE [ d EXCEPT !.bStatus = STATUS_ERR_UNKNOWN, !.bState = STATE_DFU_ERROR,
                    !.iString = 0 ]

dfu_clrstatus_ctx(d) ==
    IF d.bState = STATE_DFU_ERROR
    THEN [ d EXCEPT !.bStatus = STATUS_OK, !.bState = STATE_DFU_IDLE, !.iString = 0 ]
    ELSE [ d EXCEPT !.bStatus = STATUS_ERR_UNKNOWN, !.bState = STATE_DFU_ERROR,
                    !.iString = 0 ]

\* mutant: ABORT also rewinds the address pointer to the application base
dfu_abort_resets_addr(d) ==
    IF d.bState \in ResetStates
    THEN [ d EXCEPT !.bStatus = STATUS_OK, !.bState = STATE_DFU_IDLE, !.iString = 0,
                    !.block_num = 0, !.data_len = 0,
                    !.base_addr = U32(APP_LOADED_ADDR) ]
    ELSE d

dfu_abort_ctx(d) ==
    IF d.bState \in ResetStates
    THEN [ d EXCEPT !.bStatus = STATUS_OK, !.bState = STATE_DFU_IDLE, !.iString = 0,
                    !.block_num = 0, !.data_len = 0 ]
    ELSE d

dfu_mode_leave_ctx(d, bm) ==
    IF ManifestTolerant(bm)
    THEN [ d EXCEPT !.manifest_state = MANIFEST_COMPLETE,
                    !.bState = STATE_DFU_MANIFEST_SYNC ]
    ELSE [ d EXCEPT !.manifest_state = MANIFEST_COMPLETE,
                    !.bState = STATE_DFU_MANIFEST_WAIT_RESET ]

\* mutant: the reset is issued before the adapter is deinitialised
dfu_mode_leave_reset_first(bm) ==
    IF ManifestTolerant(bm) THEN << >>
    ELSE << Call0("NVIC_SystemReset", 0), Call0("dfu_mem_deinit", 0) >>

dfu_mode_leave_calls(bm) ==
    IF ManifestTolerant(bm) THEN << >>
    ELSE << Call0("dfu_mem_deinit", 0), Call0("NVIC_SystemReset", 0) >>

\* which special command, if any, the DNBUSY branch decodes
Decodes(d, cmd) ==
    /\ d.bState = STATE_DFU_DNBUSY
    /\ d.block_num = 0
    /\ d.data_len = 5
    /\ d.buf[1] = cmd

\* mutant: the completion leaves the staged block in the context
dfu_getstatus_complete_keeps_block(d, bm) ==
    IF d.bState = STATE_DFU_DNBUSY
    THEN LET dec ==
                 IF d.block_num = 0 /\ d.data_len = 5
                    /\ d.buf[1] \in { SET_ADDRESS_POINTER, ERASE }
                 THEN [ d EXCEPT !.base_addr = buf_addr(d.buf) ]
                 ELSE d
         IN  [ dec EXCEPT !.bState = STATE_DFU_DNLOAD_SYNC ]
    ELSE IF d.bState = STATE_DFU_MANIFEST
         THEN dfu_mode_leave_ctx(d, bm)
         ELSE d

\* mutant: a data-block write advances the address pointer by the bytes written
dfu_getstatus_complete_advances(d, bm) ==
    IF d.bState = STATE_DFU_DNBUSY
    THEN LET dec ==
                 IF d.block_num = 0
                 THEN IF d.data_len = 5 /\ d.buf[1] \in { SET_ADDRESS_POINTER, ERASE }
                      THEN [ d EXCEPT !.base_addr = buf_addr(d.buf) ]
                      ELSE d
                 ELSE IF d.block_num > 1
                      THEN [ d EXCEPT !.block_num = 0,
                                      !.base_addr = Add32(d.base_addr, U32(d.data_len)) ]
                      ELSE d
         IN  [ dec EXCEPT !.data_len = 0, !.bState = STATE_DFU_DNLOAD_SYNC ]
    ELSE IF d.bState = STATE_DFU_MANIFEST
         THEN dfu_mode_leave_ctx(d, bm)
         ELSE d

dfu_getstatus_complete_ctx(d, bm) ==
    IF d.bState = STATE_DFU_DNBUSY
    THEN LET dec ==
                 IF d.block_num = 0
                 THEN IF d.data_len = 1 THEN d
                      ELSE IF d.data_len = 5
                           THEN IF d.buf[1] = SET_ADDRESS_POINTER
                                THEN [ d EXCEPT !.base_addr = buf_addr(d.buf) ]
                                ELSE IF d.buf[1] = ERASE
                                     THEN [ d EXCEPT !.base_addr = buf_addr(d.buf) ]
                                     ELSE d
                           ELSE d
                 ELSE IF d.block_num > 1
                      THEN [ d EXCEPT !.block_num = 0 ]
                      ELSE d
         IN  [ dec EXCEPT !.data_len = 0, !.bState = STATE_DFU_DNLOAD_SYNC ]
    ELSE IF d.bState = STATE_DFU_MANIFEST
         THEN dfu_mode_leave_ctx(d, bm)
         ELSE d

\* mutant: a data block is always written as a full block
dfu_getstatus_complete_calls_full_block(d, bm) ==
    IF d.bState = STATE_DFU_DNBUSY
    THEN IF d.block_num = 0
         THEN IF d.data_len = 5 /\ d.buf[1] = ERASE
              THEN << Call("dfu_mem_erase", buf_addr(d.buf), 0) >>
              ELSE << >>
         ELSE IF d.block_num > 1
              THEN << Call("dfu_mem_write", dnload_addr(d.block_num, d.base_addr),
                           TRANSFER_SIZE) >>
              ELSE << >>
    ELSE IF d.bState = STATE_DFU_MANIFEST
         THEN dfu_mode_leave_calls(bm)
         ELSE << >>

dfu_getstatus_complete_calls(d, bm) ==
    IF d.bState = STATE_DFU_DNBUSY
    THEN IF d.block_num = 0
         THEN IF d.data_len = 5 /\ d.buf[1] = ERASE
              THEN << Call("dfu_mem_erase", buf_addr(d.buf), 0) >>
              ELSE << >>
         ELSE IF d.block_num > 1
              THEN << Call("dfu_mem_write", dnload_addr(d.block_num, d.base_addr),
                           d.data_len) >>
              ELSE << >>
    ELSE IF d.bState = STATE_DFU_MANIFEST
         THEN dfu_mode_leave_calls(bm)
         ELSE << >>

Event(op, req) ==
    [ op |-> op, pre |-> dfu.bState, zlen |-> (req.wLength = 0) ]

\* the context dfu_init leaves
InitHandler ==
    [ ZeroHandler EXCEPT !.base_addr = U32(APP_LOADED_ADDR),
                         !.manifest_state = MANIFEST_COMPLETE,
                         !.bState = STATE_DFU_IDLE,
                         !.bStatus = STATUS_OK ]

Init ==
    /\ dfu = InitHandler
    /\ transc_in = NoTransc
    /\ transc_out = NoTransc
    /\ bmAttributes \in { BM_ATTRIBUTES_BUILD, BM_ATTRIBUTES_BUILD + MANIFEST_TOLERANT_BIT }
    /\ calls = << Call0("dfu_mem_init", 0), Call0("systick_config", 0) >>
    /\ ret = USBD_OK
    /\ halted = FALSE
    /\ configured = TRUE
    /\ last = [ op |-> "dfu_init", pre |-> 0, zlen |-> TRUE ]
    /\ setAddr = {}
    /\ eraseSince = FALSE
    /\ mediaOps = 0

(***************************************************************************)
(* Entry points.  Every class request reaches its handler through          *)
(* dfu_req_handler, which returns USBD_OK after the handler ran and        *)
(* USBD_FAIL for an opcode outside the table.                              *)
(***************************************************************************)
Ghosts == << setAddr, eraseSince >>

\* the calls of a handler that erase or program the medium
MediaCalls(cs) ==
    { i \in 1 .. Len(cs) : cs[i].op \in { "dfu_mem_erase", "dfu_mem_write" } }

\* the USB core hands class requests and data-stage completions to the class
\* only while the core runs and the interface is configured
Running == ~halted /\ configured

dfu_detach(req) ==
    /\ Running
    /\ req.bRequest = DFU_DETACH
    /\ dfu' = dfu_detach_ctx(dfu)
    /\ calls' = dfu_detach_calls
    /\ ret' = USBD_OK
    /\ last' = Event("dfu_detach", req)
    /\ transc_in' = NoTransc
    /\ transc_out' = NoTransc
    /\ UNCHANGED << bmAttributes, halted, configured, Ghosts, mediaOps >>

dfu_dnload(req) ==
    /\ Running
    /\ req.bRequest = DFU_DNLOAD
    /\ dfu' = dfu_dnload_ctx(dfu, req)
    /\ transc_out' = dfu_dnload_transc(dfu, req)
    /\ calls' = << >>
    /\ ret' = USBD_OK
    /\ last' = Event("dfu_dnload", req)
    /\ transc_in' = NoTransc
    /\ mediaOps' = IF dfu.bState \in { STATE_DFU_IDLE, STATE_DFU_DNLOAD_IDLE }
                      /\ req.wLength > 0
                   THEN 0 ELSE mediaOps
    /\ UNCHANGED << bmAttributes, halted, configured, Ghosts >>

dfu_upload(req) ==
    /\ Running
    /\ req.bRequest = DFU_UPLOAD
    /\ dfu' = dfu_upload_ctx(dfu, req)
    /\ transc_in' = dfu_upload_transc(dfu, req)
    /\ calls' = dfu_upload_calls(dfu, req)
    /\ ret' = USBD_OK
    /\ last' = Event("dfu_upload", req)
    /\ transc_out' = NoTransc
    /\ UNCHANGED << bmAttributes, halted, configured, Ghosts, mediaOps >>

dfu_getstatus(req) ==
    /\ Running
    /\ req.bRequest = DFU_GETSTATUS
    /\ dfu' = dfu_getstatus_ctx(dfu, bmAttributes)
    /\ transc_in' = [ xfer_buf |-> "bStatus", xfer_len |-> 6 ]
    /\ calls' = << >>
    /\ ret' = USBD_OK
    /\ last' = Event("dfu_getstatus", req)
    /\ transc_out' = NoTransc
    /\ UNCHANGED << bmAttributes, halted, configured, Ghosts, mediaOps >>

dfu_clrstatus(req) ==
    /\ Running
    /\ req.bRequest = DFU_CLRSTATUS
    /\ dfu' = dfu_clrstatus_ctx(dfu)
    /\ calls' = << >>
    /\ ret' = USBD_OK
    /\ last' = Event("dfu_clrstatus", req)
    /\ transc_in' = NoTransc
    /\ transc_out' = NoTransc
    /\ UNCHANGED << bmAttributes, halted, configured, Ghosts, mediaOps >>

dfu_getstate(req) ==
    /\ Running
    /\ req.bRequest = DFU_GETSTATE
    /\ transc_in' = [ xfer_buf |-> "bState", xfer_len |-> 1 ]
    /\ calls' = << >>
    /\ ret' = USBD_OK
    /\ last' = Event("dfu_getstate", req)
    /\ transc_out' = NoTransc
    /\ UNCHANGED << dfu, bmAttributes, halted, configured, Ghosts, mediaOps >>

dfu_abort(req) ==
    /\ Running
    /\ req.bRequest = DFU_ABORT
    /\ dfu' = dfu_abort_ctx(dfu)
    /\ calls' = << >>
    /\ ret' = USBD_OK
    /\ last' = Event("dfu_abort", req)
    /\ transc_in' = NoTransc
    /\ transc_out' = NoTransc
    /\ UNCHANGED << bmAttributes, halted, configured, Ghosts, mediaOps >>

\* mutant: an opcode outside the table is answered with success
dfu_req_reject_ok(req) ==
    /\ Running
    /\ ~(req.bRequest < DFU_REQ_MAX)
    /\ calls' = << >>
    /\ ret' = USBD_OK
    /\ last' = Event("dfu_req_reject", req)
    /\ transc_in' = NoTransc
    /\ transc_out' = NoTransc
    /\ UNCHANGED << dfu, bmAttributes, halted, configured, Ghosts, mediaOps >>

\* the else branch of dfu_req_handler: no handler runs
dfu_req_reject(req) ==
    /\ Running
    /\ ~(req.bRequest < DFU_REQ_MAX)
    /\ calls' = << >>
    /\ ret' = USBD_FAIL
    /\ last' = Event("dfu_req_reject", req)
    /\ transc_in' = NoTransc
    /\ transc_out' = NoTransc
    /\ UNCHANGED << dfu, bmAttributes, halted, configured, Ghosts, mediaOps >>

dfu_req_handler(req) ==
    \/ dfu_detach(req)
    \/ dfu_dnload(req)
    \/ dfu_upload(req)
    \/ dfu_getstatus(req)
    \/ dfu_clrstatus(req)
    \/ dfu_getstate(req)
    \/ dfu_abort(req)
    \/ dfu_req_reject(req)

\* dfu_ctlx_in: the control-IN data stage completed; runs dfu_getstatus_complete.
\* NVIC_SystemReset is a platform primitive: dfu_mode_leave calls it last and
\* does nothing itself to stop the class from being called again, so the core
\* either stops at once or keeps serving the bus until the requested reset
\* takes effect.
dfu_ctlx_in ==
    /\ Running
    /\ dfu' = dfu_getstatus_complete_ctx(dfu, bmAttributes)
    /\ calls' = dfu_getstatus_complete_calls(dfu, bmAttributes)
    /\ halted' \in IF dfu.bState = STATE_DFU_MANIFEST /\ ~ManifestTolerant(bmAttributes)
                   THEN BOOLEAN ELSE { FALSE }
    /\ mediaOps' = IF MediaCalls(calls') = {} THEN mediaOps
                   ELSE IF mediaOps < MaxMediaOps THEN mediaOps + 1 ELSE mediaOps
    /\ ret' = USBD_OK
    /\ last' = Event("dfu_ctlx_in", NoReqArgs)
    /\ setAddr' = IF Decodes(dfu, SET_ADDRESS_POINTER) THEN { buf_addr(dfu.buf) }
                  ELSE setAddr
    /\ eraseSince' = IF Decodes(dfu, SET_ADDRESS_POINTER) THEN FALSE
                     ELSE IF Decodes(dfu, ERASE) THEN TRUE
                     ELSE eraseSince
    /\ transc_in' = NoTransc
    /\ transc_out' = NoTransc
    /\ UNCHANGED << bmAttributes, configured >>

\* dfu_init: the interface is activated (SET_CONFIGURATION), also after the
\* restart that follows a system reset
dfu_init ==
    /\ dfu' = InitHandler
    /\ transc_in' = NoTransc
    /\ transc_out' = NoTransc
    /\ calls' = << Call0("dfu_mem_init", 0), Call0("systick_config", 0) >>
    /\ ret' = USBD_OK
    /\ halted' = FALSE
    /\ configured' = TRUE
    /\ last' = Event("dfu_init", NoReqArgs)
    /\ setAddr' = {}
    /\ eraseSince' = FALSE
    /\ mediaOps' = 0
    /\ UNCHANGED << bmAttributes >>

\* dfu_deinit: the interface is torn down
dfu_deinit ==
    /\ Running
    /\ dfu' = [ ZeroHandler EXCEPT !.bState = STATE_DFU_IDLE, !.bStatus = STATUS_OK ]
    /\ calls' = << Call0("dfu_mem_deinit", 0) >>
    /\ ret' = USBD_OK
    /\ last' = Event("dfu_deinit", NoReqArgs)
    /\ setAddr' = {}
    /\ eraseSince' = FALSE
    /\ mediaOps' = 0
    /\ transc_in' = NoTransc
    /\ transc_out' = NoTransc
    /\ configured' = FALSE
    /\ UNCHANGED << bmAttributes, halted >>

NextOn(R) ==
    \/ \E req \in R : dfu_req_handler(req)
    \/ dfu_ctlx_in
    \/ dfu_init
    \/ dfu_deinit

Next == NextOn(Requests)

Spec == Init /\ [][Next]_vars

NextAddr == NextOn(AddrRequests)

SpecAddr == Init /\ [][NextAddr]_vars

(***************************************************************************)
(* The polling host: once a zero-length DNLOAD has started manifestation    *)
(* (the state is MANIFEST_SYNC or MANIFEST) the host sends nothing but      *)
(* GETSTATUS, each followed by its data-stage completion, and keeps doing   *)
(* so.                                                                      *)
(***************************************************************************)
PollRequests ==
    { Req(DFU_DNLOAD, 0, 0, NoPayload),
      Req(DFU_DNLOAD, 0, 5, Cmd(ERASE, AddrA)),
      Req(DFU_DNLOAD, MaxBlock, 5, DataPayload),
      Req(DFU_UPLOAD, 0, 3, NoPayload),
      Req(DFU_UPLOAD, 0, 0, NoPayload) }
    \cup
    PlainRequests

Polling ==
    /\ Running
    /\ dfu.bState \in { STATE_DFU_MANIFEST_SYNC, STATE_DFU_MANIFEST }

PollGetstatus ==
    /\ Polling
    /\ last.op # "dfu_getstatus"
    /\ dfu_getstatus(Req(DFU_GETSTATUS, 0, 0, NoPayload))

PollComplete ==
    /\ Polling
    /\ last.op = "dfu_getstatus"
    /\ dfu_ctlx_in

NextPoll ==
    \/ ~Polling /\ NextOn(PollRequests)
    \/ PollGetstatus
    \/ PollComplete

SpecPoll ==
    Init /\ [][NextPoll]_vars /\ WF_vars(PollGetstatus) /\ WF_vars(PollComplete)

(***************************************************************************)
(* Properties.                                                             *)
(***************************************************************************)
UploadStates == { STATE_DFU_IDLE, STATE_DFU_UPLOAD_IDLE }

\* (block_num - 2) * transfer_size + base_addr in 32-bit unsigned arithmetic,
\* for block_num >= 2
BlockAddress(block_num, base_addr) ==
    Add32(Mul32(U32(block_num - 2), TRANSFER_SIZE), base_addr)

\* C1: for every block_num >= 2 and base_addr, the data-stage-complete handler
\* in DNBUSY writes at, and the UPLOAD handler in IDLE or UPLOAD_IDLE reads at,
\* (block_num - 2) * TRANSFER_SIZE + base_addr modulo 2^32: one formula for
\* both paths.
C1_SameAddressBothPaths ==
    [][ /\ ( /\ last'.op = "dfu_ctlx_in"
             /\ dfu.bState = STATE_DFU_DNBUSY
             /\ dfu.block_num >= 2 )
           => calls' = << Call("dfu_mem_write",
                               BlockAddress(dfu.block_num, dfu.base_addr),
                               dfu.data_len) >>
        /\ last'.op = "dfu_upload"
           => \A req \in AddrRequests :
                ( /\ dfu_upload(req)
                  /\ req.wValue >= 2
                  /\ req.wLength > 0
                  /\ dfu.bState \in UploadStates )
                => calls' = << Call("dfu_mem_read",
                                    BlockAddress(req.wValue, dfu.base_addr),
                                    req.wLength) >> ]_vars

\* C1 witness: a block above 2 was written from a base address so high that
\* the sum wrapped around to 0.
C1_Witness ==
    /\ last.op = "dfu_ctlx_in"
    /\ last.pre = STATE_DFU_DNBUSY
    /\ dfu.base_addr = AddrB
    /\ calls = << Call("dfu_mem_write", U32(0), TRANSFER_SIZE) >>

\* the data-block write or upload read of the step uses base address a
UsesBase(a) ==
    /\ ( /\ last'.op = "dfu_ctlx_in"
         /\ dfu.bState = STATE_DFU_DNBUSY
         /\ dfu.block_num >= 2 )
       => /\ calls' = << Call("dfu_mem_write", BlockAddress(dfu.block_num, a),
                              dfu.data_len) >>
          /\ dfu'.bState = STATE_DFU_DNLOAD_SYNC
    /\ last'.op = "dfu_upload"
       => \A req \in AddrRequests :
            ( /\ dfu_upload(req)
              /\ req.wValue >= 2
              /\ req.wLength > 0
              /\ dfu.bState \in UploadStates )
            => calls' = << Call("dfu_mem_read", BlockAddress(req.wValue, a),
                                req.wLength) >>

\* C2 as stated: once SET_ADDRESS_POINTER(A) is decoded, every later data-block
\* write or upload read without an intervening SET_ADDRESS_POINTER uses base
\* address A, whatever other requests occur in between.
C2_Original_StickyWhateverRequests ==
    [][ \A a \in setAddr : UsesBase(a) ]_vars

\* C2 amended: once SET_ADDRESS_POINTER(A) is decoded, every later data-block
\* write or upload read uses base address A provided no SET_ADDRESS_POINTER and
\* no ERASE command was decoded in between (and the interface was not
\* re-initialised); the write of a block-2 download of N bytes is at A with
\* length N and ends in DNLOAD_SYNC.
C2_StickyUntilNextAddressCommand ==
    [][ ~eraseSince => \A a \in setAddr : UsesBase(a) ]_vars

\* C2 witness: block 2 of N = TRANSFER_SIZE bytes was written at the address
\* set by SET_ADDRESS_POINTER, ending in DNLOAD_SYNC.
C2_Witness ==
    /\ last.op = "dfu_ctlx_in"
    /\ last.pre = STATE_DFU_DNBUSY
    /\ setAddr = { AddrA }
    /\ ~eraseSince
    /\ calls = << Call("dfu_mem_write", AddrA, TRANSFER_SIZE) >>
    /\ dfu.bState = STATE_DFU_DNLOAD_SYNC

\* the last entry point was a zero-length DNLOAD that found IDLE or DNLOAD_IDLE
AfterManifestRequest ==
    /\ last.op = "dfu_dnload"
    /\ last.zlen
    /\ last.pre \in { STATE_DFU_IDLE, STATE_DFU_DNLOAD_IDLE }

\* C3: a zero-length DNLOAD received in IDLE or DNLOAD_IDLE sets manifest_state
\* to IN_PROGRESS and the state to MANIFEST_SYNC, and a GETSTATUS that is the
\* next request moves the state to MANIFEST.
C3_ZeroDnloadThenGetstatus ==
    /\ [](AfterManifestRequest
           => /\ dfu.manifest_state = MANIFEST_IN_PROGRESS
              /\ dfu.bState = STATE_DFU_MANIFEST_SYNC)
    /\ [][ (AfterManifestRequest /\ last'.op = "dfu_getstatus")
           => dfu'.bState = STATE_DFU_MANIFEST ]_vars

\* C3 witness: GETSTATUS found MANIFEST_SYNC and left MANIFEST.
C3_Witness ==
    /\ last.op = "dfu_getstatus"
    /\ last.pre = STATE_DFU_MANIFEST_SYNC
    /\ dfu.manifest_state = MANIFEST_IN_PROGRESS
    /\ dfu.bState = STATE_DFU_MANIFEST

\* C4: a data-stage completion in MANIFEST has exactly two outcomes: on a
\* manifestation-tolerant device MANIFEST_SYNC with manifest_state COMPLETE and
\* no deinit or reset; otherwise MANIFEST_WAIT_RESET, then the adapter deinit,
\* then the platform reset, in that order.
C4_ManifestCompletionOutcomes ==
    [][ (last'.op = "dfu_ctlx_in" /\ dfu.bState = STATE_DFU_MANIFEST)
        => IF (bmAttributes \div 4) % 2 = 1
           THEN /\ dfu'.bState = STATE_DFU_MANIFEST_SYNC
                /\ dfu'.manifest_state = MANIFEST_COMPLETE
                /\ calls' = << >>
                /\ ~halted'
           ELSE /\ dfu'.bState = STATE_DFU_MANIFEST_WAIT_RESET
                /\ calls' = << Call0("dfu_mem_deinit", 0), Call0("NVIC_SystemReset", 0) >> ]_vars

\* C4 witness: the completion on a device that is not tolerant reset the core.
C4_Witness ==
    /\ last.op = "dfu_ctlx_in"
    /\ last.pre = STATE_DFU_MANIFEST
    /\ dfu.bState = STATE_DFU_MANIFEST_WAIT_RESET
    /\ halted

IdleOk == dfu.bState = STATE_DFU_IDLE /\ dfu.bStatus = STATUS_OK

\* C5 as stated: from ERROR the first CLRSTATUS leaves IDLE with status OK, and
\* the CLRSTATUS right after it leaves IDLE with status OK again.
C5_Original_ClrstatusIdempotent ==
    [][ ( /\ last'.op = "dfu_clrstatus"
          /\ \/ dfu.bState = STATE_DFU_ERROR
             \/ (last.op = "dfu_clrstatus" /\ last.pre = STATE_DFU_ERROR) )
        => IdleOk' ]_vars

\* C5 amended: from ERROR the first CLRSTATUS leaves IDLE with status OK; the
\* CLRSTATUS right after it leaves ERROR with the unknown-error status.
C5_ClrstatusAlternates ==
    [][ /\ (last'.op = "dfu_clrstatus" /\ dfu.bState = STATE_DFU_ERROR)
           => IdleOk'
        /\ ( /\ last'.op = "dfu_clrstatus"
             /\ last.op = "dfu_clrstatus"
             /\ last.pre = STATE_DFU_ERROR )
           => /\ dfu'.bState = STATE_DFU_ERROR
              /\ dfu'.bStatus = STATUS_ERR_UNKNOWN ]_vars

\* C5 witness: a CLRSTATUS found IDLE and left ERROR with the unknown-error
\* status.
C5_Witness ==
    /\ last.op = "dfu_clrstatus"
    /\ last.pre = STATE_DFU_IDLE
    /\ dfu.bState = STATE_DFU_ERROR
    /\ dfu.bStatus = STATUS_ERR_UNKNOWN

\* C6: ABORT or DETACH received in IDLE, DNLOAD_SYNC, DNLOAD_IDLE,
\* MANIFEST_SYNC or UPLOAD_IDLE leaves status OK, state IDLE, string_index 0,
\* block_num 0 and data_len 0.
C6_AbortDetachReset ==
    [][ ( /\ last'.op \in { "dfu_abort", "dfu_detach" }
          /\ dfu.bState \in { STATE_DFU_IDLE, STATE_DFU_DNLOAD_SYNC,
                              STATE_DFU_DNLOAD_IDLE, STATE_DFU_MANIFEST_SYNC,
                              STATE_DFU_UPLOAD_IDLE } )
        => /\ dfu'.bStatus = STATUS_OK
           /\ dfu'.bState = STATE_DFU_IDLE
           /\ dfu'.iString = 0
           /\ dfu'.block_num = 0
           /\ dfu'.data_len = 0 ]_vars

\* C6 witness: DETACH found DNLOAD_SYNC, where a block was staged, and left
\* IDLE.
C6_Witness ==
    /\ last.op = "dfu_detach"
    /\ last.pre = STATE_DFU_DNLOAD_SYNC
    /\ dfu.bState = STATE_DFU_IDLE
    /\ dfu.buf = DataPayload

UploadRequests == { r \in Requests : r.bRequest = DFU_UPLOAD }

\* C7: UPLOAD with block_num 0 and length L > 0 in IDLE or UPLOAD_IDLE arms
\* exactly the 3 bytes GET_COMMANDS, SET_ADDRESS_POINTER, ERASE; the state
\* becomes UPLOAD_IDLE when L <= 3 and IDLE when L > 3.
C7_UploadCommandList ==
    [][ last'.op = "dfu_upload"
        => \A req \in UploadRequests :
             ( /\ dfu_upload(req)
               /\ req.wValue = 0
               /\ req.wLength > 0
               /\ dfu.bState \in UploadStates )
             => /\ transc_in' = [ xfer_buf |-> "dfu_buf", xfer_len |-> 3 ]
                /\ dfu'.buf[1] = GET_COMMANDS
                /\ dfu'.buf[2] = SET_ADDRESS_POINTER
                /\ dfu'.buf[3] = ERASE
                /\ dfu'.bState = IF req.wLength <= 3 THEN STATE_DFU_UPLOAD_IDLE
                                 ELSE STATE_DFU_IDLE ]_vars

\* C7 witness: the command list was armed for a request of 3 bytes.
C7_Witness ==
    /\ last.op = "dfu_upload"
    /\ last.pre \in UploadStates
    /\ transc_in = [ xfer_buf |-> "dfu_buf", xfer_len |-> 3 ]
    /\ dfu.data_len = 3
    /\ dfu.bState = STATE_DFU_UPLOAD_IDLE

\* C8: UPLOAD with block_num 1 and length > 0 in IDLE or UPLOAD_IDLE sets the
\* status code to STATUS_ERR_STALLEDPKT and arms no data.
C8_UploadBlockOneStalls ==
    [][ last'.op = "dfu_upload"
        => \A req \in UploadRequests :
             ( /\ dfu_upload(req)
               /\ req.wValue = 1
               /\ req.wLength > 0
               /\ dfu.bState \in UploadStates )
             => /\ dfu'.bStatus = STATUS_ERR_STALLEDPKT
                /\ transc_in' = NoTransc ]_vars

\* C9: the state field always holds one of the nine declared states.
C9_StateDeclared == dfu.bState \in DeclaredStates

\* C10: data_len never exceeds the capacity of the staging buffer, and the
\* data stage DNLOAD arms never covers more bytes than the buffer holds.
C10_DataLenWithinBuffer ==
    /\ dfu.data_len <= TRANSFER_SIZE
    /\ transc_out.xfer_len <= TRANSFER_SIZE

SevenOpcodes ==
    { DFU_DETACH, DFU_DNLOAD, DFU_UPLOAD, DFU_GETSTATUS, DFU_CLRSTATUS, DFU_GETSTATE,
      DFU_ABORT }

\* the handler an opcode of the table stands for, and what it does to the context
HandlerOf(r) ==
    CASE r = DFU_DETACH -> "dfu_detach"
      [] r = DFU_DNLOAD -> "dfu_dnload"
      [] r = DFU_UPLOAD -> "dfu_upload"
      [] r = DFU_GETSTATUS -> "dfu_getstatus"
      [] r = DFU_CLRSTATUS -> "dfu_clrstatus"
      [] r = DFU_GETSTATE -> "dfu_getstate"
      [] r = DFU_ABORT -> "dfu_abort"

HandlerEffect(d, bm, req) ==
    CASE req.bRequest = DFU_DETACH -> dfu_detach_ctx(d)
      [] req.bRequest = DFU_DNLOAD -> dfu_dnload_ctx(d, req)
      [] req.bRequest = DFU_UPLOAD -> dfu_upload_ctx(d, req)
      [] req.bRequest = DFU_GETSTATUS -> dfu_getstatus_ctx(d, bm)
      [] req.bRequest = DFU_CLRSTATUS -> dfu_clrstatus_ctx(d)
      [] req.bRequest = DFU_GETSTATE -> d
      [] req.bRequest = DFU_ABORT -> dfu_abort_ctx(d)

\* C11: a request whose opcode is none of the seven makes the dispatcher return
\* failure and leaves the whole context unchanged; a request with one of the
\* seven opcodes runs exactly its handler and the dispatcher returns success.
C11_DispatchByOpcode ==
    [][ \A req \in AddrRequests :
          dfu_req_handler(req)
          => IF req.bRequest \in SevenOpcodes
             THEN /\ ret' = USBD_OK
                  /\ last'.op = HandlerOf(req.bRequest)
                  /\ dfu' = HandlerEffect(dfu, bmAttributes, req)
             ELSE /\ ret' = USBD_FAIL
                  /\ dfu' = dfu ]_vars

\* C11 witness: an opcode outside the table was refused while a block was
\* staged, and the staged block is still there.
C11_Witness ==
    /\ last.op = "dfu_req_reject"
    /\ last.pre = STATE_DFU_DNLOAD_SYNC
    /\ ret = USBD_FAIL
    /\ dfu.bState = STATE_DFU_DNLOAD_SYNC
    /\ dfu.data_len > 0

PollTimeout(d) ==
    d.bwPollTimeout0 + U8 * d.bwPollTimeout1 + U8 * U8 * d.bwPollTimeout2

\* a block-0 ERASE command for address a is staged in the context
ErasePending(a) ==
    /\ dfu.block_num = 0
    /\ dfu.data_len = 5
    /\ dfu.buf = Cmd(ERASE, a)

\* C13: for a staged block-0 ERASE command for address A, GETSTATUS reports the
\* erase timeout and enters DNBUSY, and the data-stage completion calls the
\* adapter erase exactly once, with A, sets base_addr to A and ends in
\* DNLOAD_SYNC.
C13_EraseCommand ==
    [][ \A a \in { AddrA, AddrB } :
          /\ ( /\ last'.op = "dfu_getstatus"
               /\ dfu.bState = STATE_DFU_DNLOAD_SYNC
               /\ ErasePending(a) )
             => /\ dfu'.bState = STATE_DFU_DNBUSY
                /\ PollTimeout(dfu') = FLASH_ERASE_TIMEOUT
          /\ ( /\ last'.op = "dfu_ctlx_in"
               /\ dfu.bState = STATE_DFU_DNBUSY
               /\ ErasePending(a) )
             => /\ calls' = << Call("dfu_mem_erase", a, 0) >>
                /\ mediaOps' = 1
                /\ dfu'.base_addr = a
                /\ dfu'.bState = STATE_DFU_DNLOAD_SYNC
                /\ PollTimeout(dfu') = FLASH_ERASE_TIMEOUT ]_vars

\* C13 witness: the erase of the address one block below 2^32 completed.
C13_Witness ==
    /\ last.op = "dfu_ctlx_in"
    /\ last.pre = STATE_DFU_DNBUSY
    /\ calls = << Call("dfu_mem_erase", AddrB, 0) >>
    /\ dfu.base_addr = AddrB
    /\ dfu.bState = STATE_DFU_DNLOAD_SYNC
    /\ PollTimeout(dfu) = FLASH_ERASE_TIMEOUT

\* C14: among the requests and data-stage completions, base_addr is changed
\* only by a completion in DNBUSY that decodes a SET_ADDRESS_POINTER or ERASE
\* command with block_num 0 and data_len 5; a data-block write leaves it.
C14_BaseAddrFrame ==
    [][ ( /\ dfu'.base_addr # dfu.base_addr
          /\ last'.op \notin { "dfu_init", "dfu_deinit" } )
        => /\ last'.op = "dfu_ctlx_in"
           /\ dfu.bState = STATE_DFU_DNBUSY
           /\ dfu.block_num = 0
           /\ dfu.data_len = 5
           /\ dfu.buf[1] \in { SET_ADDRESS_POINTER, ERASE } ]_vars

\* C14 witness: a data block was written at the address an ERASE command had
\* set, and the address is still that one.
C14_Witness ==
    /\ last.op = "dfu_ctlx_in"
    /\ last.pre = STATE_DFU_DNBUSY
    /\ eraseSince
    /\ calls = << Call("dfu_mem_write", AddrA, TRANSFER_SIZE) >>
    /\ dfu.base_addr = AddrA

\* C15: GETSTATUS in DNLOAD_SYNC with data_len # 0 enters DNBUSY and sets the
\* poll timeout to the erase timeout for a block-0 ERASE command and to the
\* write timeout in every other case, data blocks included.
C15_GetstatusArmsTimeout ==
    [][ ( /\ last'.op = "dfu_getstatus"
          /\ dfu.bState = STATE_DFU_DNLOAD_SYNC
          /\ dfu.data_len # 0 )
        => /\ dfu'.bState = STATE_DFU_DNBUSY
           /\ PollTimeout(dfu') = IF dfu.block_num = 0 /\ dfu.buf[1] = ERASE
                                  THEN FLASH_ERASE_TIMEOUT
                                  ELSE FLASH_WRITE_TIMEOUT ]_vars

\* C16: a GETSTATUS response whose state is not DNBUSY reports poll timeout 0,
\* or 1 when the state is MANIFEST.
C16_TimeoutOutsideDnbusy ==
    ( /\ last.op = "dfu_getstatus"
      /\ dfu.bState # STATE_DFU_DNBUSY )
    => PollTimeout(dfu) = IF dfu.bState = STATE_DFU_MANIFEST THEN 1 ELSE 0

\* C17: a data-stage completion in DNBUSY always clears data_len and sets
\* DNLOAD_SYNC; for block_num >= 2 it also calls the adapter write with
\* data_len bytes and resets block_num to 0.
C17_CompletionInDnbusy ==
    [][ ( /\ last'.op = "dfu_ctlx_in"
          /\ dfu.bState = STATE_DFU_DNBUSY )
        => /\ dfu'.data_len = 0
           /\ dfu'.bState = STATE_DFU_DNLOAD_SYNC
           /\ dfu.block_num >= 2
              => /\ Len(calls') = 1
                 /\ calls'[1].op = "dfu_mem_write"
                 /\ calls'[1].len = dfu.data_len
                 /\ dfu'.block_num = 0 ]_vars

\* C17 witness: the completion of a block with block_num 1 called nothing and
\* advanced to DNLOAD_SYNC with data_len cleared.
C17_Witness ==
    /\ last.op = "dfu_ctlx_in"
    /\ last.pre = STATE_DFU_DNBUSY
    /\ dfu.block_num = 1
    /\ calls = << >>
    /\ dfu.data_len = 0
    /\ dfu.bState = STATE_DFU_DNLOAD_SYNC

\* C18: an UPLOAD with length 0 sets the state to IDLE from any state, changes
\* no other field of the context and arms no transfer.
C18_UploadZeroLength ==
    [][ (last'.op = "dfu_upload" /\ last'.zlen)
        => /\ dfu' = [ dfu EXCEPT !.bState = STATE_DFU_IDLE ]
           /\ transc_in' = NoTransc
           /\ transc_out' = NoTransc
           /\ calls' = << >> ]_vars

\* C18 witness: a zero-length UPLOAD found DNBUSY with a command staged and
\* left IDLE with the command and its poll timeout still in the context.
C18_Witness ==
    /\ last.op = "dfu_upload"
    /\ last.zlen
    /\ last.pre = STATE_DFU_DNBUSY
    /\ dfu.bState = STATE_DFU_IDLE
    /\ dfu.data_len = 5
    /\ PollTimeout(dfu) = FLASH_WRITE_TIMEOUT

\* the functional descriptor declares the device manifestation tolerant
TolerantDevice == (bmAttributes \div 4) % 2 = 1

\* C19: on a manifestation-tolerant device, after a zero-length DNLOAD accepted
\* in IDLE or DNLOAD_IDLE, a host that keeps polling GETSTATUS (each poll
\* followed by its data-stage completion) eventually observes IDLE; the states
\* visited are MANIFEST_SYNC, MANIFEST, MANIFEST_SYNC, IDLE and the poll
\* timeout low byte is cleared on reaching IDLE.
C19_TolerantPollingReachesIdle ==
    /\ (AfterManifestRequest /\ TolerantDevice)
       ~> ( /\ last.op = "dfu_getstatus"
            /\ last.pre = STATE_DFU_MANIFEST_SYNC
            /\ dfu.bState = STATE_DFU_IDLE
            /\ dfu.bwPollTimeout0 = 0 )
    /\ [][ (TolerantDevice /\ Polling)
           => /\ ( /\ dfu.bState = STATE_DFU_MANIFEST_SYNC
                   /\ dfu.manifest_state = MANIFEST_IN_PROGRESS )
                 => /\ last'.op = "dfu_getstatus"
                    /\ dfu'.bState = STATE_DFU_MANIFEST
              /\ dfu.bState = STATE_DFU_MANIFEST
                 => /\ last'.op = "dfu_ctlx_in"
                    /\ dfu'.bState = STATE_DFU_MANIFEST_SYNC
                    /\ dfu'.manifest_state = MANIFEST_COMPLETE
              /\ ( /\ dfu.bState = STATE_DFU_MANIFEST_SYNC
                   /\ dfu.manifest_state = MANIFEST_COMPLETE )
                 => /\ last'.op = "dfu_getstatus"
                    /\ dfu'.bState = STATE_DFU_IDLE
                    /\ dfu'.bwPollTimeout0 = 0 ]_vars

\* C19 witness: the poll after manifestation completed found MANIFEST_SYNC and
\* reported IDLE on a tolerant device.
C19_Witness ==
    /\ TolerantDevice
    /\ last.op = "dfu_getstatus"
    /\ last.pre = STATE_DFU_MANIFEST_SYNC
    /\ dfu.manifest_state = MANIFEST_COMPLETE
    /\ dfu.bState = STATE_DFU_IDLE
    /\ dfu.bwPollTimeout0 = 0

\* C20: the adapter's erase and write are called only by a data-stage
\* completion in DNBUSY, at most one call per completion; DNBUSY is entered only
\* by a GETSTATUS in DNLOAD_SYNC with data_len # 0; and no accepted DNLOAD with
\* length > 0 is followed by more than one erase or write before the next one
\* is accepted.
C20_OneMediaOpPerDnload ==
    /\ [](mediaOps <= 1)
    /\ [][ /\ MediaCalls(calls') # {}
              => /\ last'.op = "dfu_ctlx_in"
                 /\ dfu.bState = STATE_DFU_DNBUSY
                 /\ Cardinality(MediaCalls(calls')) = 1
           /\ ( /\ dfu'.bState = STATE_DFU_DNBUSY
                /\ dfu.bState # STATE_DFU_DNBUSY )
              => /\ last'.op = "dfu_getstatus"
                 /\ dfu.bState = STATE_DFU_DNLOAD_SYNC
                 /\ dfu.data_len # 0 ]_vars

\* C20 witness: a completion in DNBUSY made the one adapter call of the
\* download accepted before it.
C20_Witness ==
    /\ last.op = "dfu_ctlx_in"
    /\ last.pre = STATE_DFU_DNBUSY
    /\ MediaCalls(calls) # {}
    /\ mediaOps = 1

\* C21: in every reachable state the status code differs from OK exactly when
\* the state is ERROR, and state ERROR carries the unknown-error status.
C21_StatusFollowsState ==
    /\ (dfu.bStatus # STATUS_OK) <=> (dfu.bState = STATE_DFU_ERROR)
    /\ dfu.bState = STATE_DFU_ERROR => dfu.bStatus = STATUS_ERR_UNKNOWN

\* the device is in IDLE with status OK and string index 0
Cleared ==
    /\ dfu.bState = STATE_DFU_IDLE
    /\ dfu.bStatus = STATUS_OK
    /\ dfu.iString = 0

\* C22: from any value of the state field, at most two consecutive CLRSTATUS
\* requests bring the device to IDLE with status OK and string_index 0, and
\* CLRSTATUS calls no external collaborator: one CLRSTATUS does it from ERROR,
\* and of two consecutive ones the first or the second does.
C22_TwoClrstatusReachIdle ==
    [][ last'.op = "dfu_clrstatus"
        => /\ calls' = << >>
           /\ dfu.bState = STATE_DFU_ERROR => Cleared'
           /\ last.op = "dfu_clrstatus" => (Cleared \/ Cleared') ]_vars

\* C22 witness: the second of two consecutive CLRSTATUS requests left IDLE with
\* status OK after an UPLOAD of block 1 had put the status constant into the
\* state field.
C22_Witness ==
    /\ last.op = "dfu_clrstatus"
    /\ last.pre = STATE_DFU_ERROR
    /\ Cleared
    /\ dfu.block_num = 1
    /\ dfu.data_len = 3

====
